---------------------------- MODULE Spec2Model ----------------------------
(***************************************************************************)
(* Model of pheonix_permit_grab.py: the record normalizer                  *)
(* (_parse_date, _process_permit_data), the paginated fetcher              *)
(* (fetch_permits_for_date_range over _make_request) and the CSV sink      *)
(* (save_to_csv).                                                          *)
(*                                                                         *)
(* Python strings are sequences of one-character strings.  JSON values are *)
(* tagged records [t, s, n]: t is the JSON type, s the characters of a     *)
(* string, n the value of a number.  Integers wider than 32 bits (the      *)
(* millisecond timestamps) are kept as [neg, mag] with mag a sequence of   *)
(* decimal digits, most significant first, no leading zero.                *)
(***************************************************************************)
EXTENDS Integers, Sequences, FiniteSets, TLC

VARIABLES
    page_size,        \* self.page_size
    start_date_str,   \* argument of fetch_permits_for_date_range
    end_date_str,     \* argument of fetch_permits_for_date_range
    delay_seconds,    \* argument of fetch_permits_for_date_range
    pc,               \* position of the run
    current_page,     \* local of fetch_permits_for_date_range
    total_records,    \* local of fetch_permits_for_date_range
    all_permits,      \* local of fetch_permits_for_date_range (the accumulator)
    returned,         \* what the call gave back to its caller
    requests,         \* the payloads posted, in order
    log,              \* the requests sent and the sleeps taken, in order
    pages,            \* the Data list of every page that reached normalization
    last_response,    \* the response to the latest request
    tz_offset,        \* the local time zone, seconds east of UTC
    pad_year,         \* whether the platform's strftime pads %Y to 4 digits
    raw_in,           \* the raw record handed to _process_permit_data
    norm_out,         \* what _process_permit_data did with it
    csv_data,         \* the list handed to save_to_csv
    csv_file,         \* the output file
    csv_call          \* whether save_to_csv has run, and the write that failed

vars == <<page_size, start_date_str, end_date_str, delay_seconds, pc,
          current_page, total_records, all_permits, returned, requests, log,
          pages, last_response, tz_offset, pad_year, raw_in, norm_out,
          csv_data, csv_file, csv_call>>

fetchVars == <<page_size, start_date_str, end_date_str, delay_seconds, pc,
               current_page, total_records, all_permits, returned,
               requests, log, pages, last_response>>
normVars == <<raw_in, norm_out>>
csvVars == <<csv_data, csv_file, csv_call>>
platformVars == <<tz_offset, pad_year>>

-----------------------------------------------------------------------------
(* Python str operations                                                   *)

Digits == {"0", "1", "2", "3", "4", "5", "6", "7", "8", "9"}

DigitVal(c) ==
    CASE c = "0" -> 0 [] c = "1" -> 1 [] c = "2" -> 2 [] c = "3" -> 3
      [] c = "4" -> 4 [] c = "5" -> 5 [] c = "6" -> 6 [] c = "7" -> 7
      [] c = "8" -> 8 [] c = "9" -> 9

DigitChar(n) ==
    CASE n = 0 -> "0" [] n = 1 -> "1" [] n = 2 -> "2" [] n = 3 -> "3"
      [] n = 4 -> "4" [] n = 5 -> "5" [] n = 6 -> "6" [] n = 7 -> "7"
      [] n = 8 -> "8" [] n = 9 -> "9"

\* str.startswith(prefix)
StartsWith(s, p) == Len(s) >= Len(p) /\ SubSeq(s, 1, Len(p)) = p

\* str.lstrip(chars): drop leading characters that are in the set chars
RECURSIVE LStrip(_, _)
LStrip(s, chars) ==
    IF s # <<>> /\ Head(s) \in chars THEN LStrip(Tail(s), chars) ELSE s

\* str.rstrip(chars)
RECURSIVE RStrip(_, _)
RStrip(s, chars) ==
    IF s # <<>> /\ s[Len(s)] \in chars
    THEN RStrip(SubSeq(s, 1, Len(s) - 1), chars)
    ELSE s

\* str.strip(chars): chars is a SET of characters, not a prefix or suffix
Strip(s, chars) == RStrip(LStrip(s, chars), chars)

\* the argument '/Date()' of strip at line 66, as the set it denotes
DateStripChars == {"/", "D", "a", "t", "e", "(", ")"}

DatePrefix == <<"/", "D", "a", "t", "e", "(">>

Whitespace == {" "}

\* int(str): optional blanks around, an optional sign, then decimal digits
\* that single underscores may separate.  ok = FALSE is ValueError.
RECURSIVE DigitsWellGrouped(_)
DigitsWellGrouped(s) ==
    \/ Len(s) = 1 /\ s[1] \in Digits
    \/ /\ Len(s) >= 2
       /\ s[1] \in Digits
       /\ \/ s[2] \in Digits /\ DigitsWellGrouped(Tail(s))
          \/ s[2] = "_" /\ DigitsWellGrouped(Tail(Tail(s)))

RECURSIVE DropLeadingZeros(_)
DropLeadingZeros(m) ==
    IF m # <<>> /\ Head(m) = 0 THEN DropLeadingZeros(Tail(m)) ELSE m

Magnitude(s) ==
    DropLeadingZeros([i \in 1..Len(SelectSeq(s, LAMBDA c : c \in Digits)) |->
                          DigitVal(SelectSeq(s, LAMBDA c : c \in Digits)[i])])

\* the sign and the digits of a text without blanks around it
PyIntSigned(neg, body) ==
    IF DigitsWellGrouped(body)
    THEN [ok |-> TRUE, neg |-> neg /\ Magnitude(body) # <<>>,
          mag |-> Magnitude(body)]
    ELSE [ok |-> FALSE, neg |-> FALSE, mag |-> <<>>]

PyIntStripped(t) ==
    IF t # <<>> /\ Head(t) \in {"+", "-"}
    THEN PyIntSigned(Head(t) = "-", Tail(t))
    ELSE PyIntSigned(FALSE, t)

PyInt(s) == PyIntStripped(Strip(s, Whitespace))

-----------------------------------------------------------------------------
(* Python values as the JSON decoder and dict.get produce them             *)

None == [t |-> "null", s |-> <<>>, n |-> 0]
Absent == [t |-> "absent", s |-> <<>>, n |-> 0]
Str(s) == [t |-> "str", s |-> s, n |-> 0]
Num(n) == [t |-> "int", s |-> <<>>, n |-> n]
NonEmptyList == [t |-> "list", s |-> <<>>, n |-> 0]

\* bool(v), as `not v` uses it
Truthy(v) ==
    CASE v.t = "str" -> v.s # <<>>
      [] v.t = "int" -> v.n # 0
      [] v.t = "list" -> TRUE
      [] OTHER -> FALSE

\* dict.get(key): None for a missing key
Get(d, key) == IF d[key].t = "absent" THEN None ELSE d[key]

-----------------------------------------------------------------------------
(* Arithmetic on the wide integers                                         *)

\* a >= b on magnitudes
RECURSIVE LexGeq(_, _)
LexGeq(a, b) ==
    IF a = <<>> THEN TRUE
    ELSE IF Head(a) # Head(b) THEN Head(a) > Head(b)
    ELSE LexGeq(Tail(a), Tail(b))

MagGeq(a, b) == Len(a) > Len(b) \/ (Len(a) = Len(b) /\ LexGeq(a, b))

\* long division of a magnitude by a small divisor d (10 * d fits 32 bits)
RECURSIVE DivStep(_, _, _, _)
DivStep(m, d, q, r) ==
    IF m = <<>> THEN [q |-> DropLeadingZeros(q), r |-> r]
    ELSE DivStep(Tail(m), d, Append(q, (r * 10 + Head(m)) \div d),
                 (r * 10 + Head(m)) % d)

DivMag(m, d) == DivStep(m, d, <<>>, 0)

RECURSIVE IncMag(_)
IncMag(m) ==
    IF m = <<>> THEN <<1>>
    ELSE IF m[Len(m)] < 9
         THEN [m EXCEPT ![Len(m)] = @ + 1]
         ELSE Append(IncMag(SubSeq(m, 1, Len(m) - 1)), 0)

\* floor(x / d) and x mod d for a signed wide integer x, from the quotient
\* and remainder dm of its magnitude
FloorOf(neg, dm, d) ==
    IF ~neg THEN [neg |-> FALSE, mag |-> dm.q, r |-> dm.r]
    ELSE IF dm.r = 0 THEN [neg |-> dm.q # <<>>, mag |-> dm.q, r |-> 0]
    ELSE [neg |-> TRUE, mag |-> IncMag(dm.q), r |-> d - dm.r]

FloorDiv(x, d) == FloorOf(x.neg, DivMag(x.mag, d), d)

RECURSIVE MagToNat(_)
MagToNat(m) ==
    IF m = <<>> THEN 0 ELSE MagToNat(SubSeq(m, 1, Len(m) - 1)) * 10 + m[Len(m)]

ToInt(x) == IF x.neg THEN 0 - MagToNat(x.mag) ELSE MagToNat(x.mag)

-----------------------------------------------------------------------------
(* datetime.fromtimestamp and strftime                                     *)

\* beyond this many milliseconds the seconds no longer fit time_t:
\* OverflowError
TimeTLimitMs ==
    <<9, 2, 2, 3, 3, 7, 2, 0, 3, 6, 8, 5, 4, 7, 7, 5, 2, 9, 6, 0, 0, 0>>

\* beyond this many milliseconds localtime() cannot hold the year in
\* tm_year: OSError
TmYearLimitMs ==
    <<6, 7, 7, 6, 8, 0, 3, 6, 1, 9, 1, 6, 7, 6, 7, 9, 6, 0, 0, 0>>

\* proleptic Gregorian date of a day number counted from 1970-01-01: the
\* 400-year era, the day of the era, the year of the era, the day of the
\* year counted from March 1, and the month counted from March
CivilFromMonth(era, yoe, doy, mp) ==
    [y |-> yoe + era * 400 + (IF mp >= 10 THEN 1 ELSE 0),
     m |-> IF mp < 10 THEN mp + 3 ELSE mp - 9,
     d |-> doy - (153 * mp + 2) \div 5 + 1]

CivilFromDayOfYear(era, yoe, doy) ==
    CivilFromMonth(era, yoe, doy, (5 * doy + 2) \div 153)

CivilFromYearOfEra(era, doe, yoe) ==
    CivilFromDayOfYear(era, yoe,
                       doe - (365 * yoe + yoe \div 4 - yoe \div 100))

CivilFromDayOfEra(era, doe) ==
    CivilFromYearOfEra(era, doe,
        (doe - doe \div 1460 + doe \div 36524 - doe \div 146096) \div 365)

CivilFromDays(z) ==
    CivilFromDayOfEra((z + 719468) \div 146097, (z + 719468) % 146097)

RECURSIVE NatToChars(_)
NatToChars(n) ==
    IF n < 10 THEN <<DigitChar(n)>>
    ELSE Append(NatToChars(n \div 10), DigitChar(n % 10))

RECURSIVE ZeroPad(_, _)
ZeroPad(s, width) == IF Len(s) >= width THEN s ELSE ZeroPad(<<"0">> \o s, width)

\* strftime('%Y-%m-%d'); glibc prints %Y unpadded, other platforms pad it
Strftime(date, pad) ==
    (IF pad THEN ZeroPad(NatToChars(date.y), 4) ELSE NatToChars(date.y))
        \o <<"-">> \o ZeroPad(NatToChars(date.m), 2)
        \o <<"-">> \o ZeroPad(NatToChars(date.d), 2)

\* a date datetime can hold (years 1 to 9999; fromtimestamp also converts
\* the instant one day earlier, to detect a repeated hour), formatted
FormatDate(date, dayBefore, pad) ==
    IF date.y > 9999 \/ dayBefore.y < 1
    THEN [exc |-> "ValueError", text |-> <<>>]
    ELSE [exc |-> "", text |-> Strftime(date, pad)]

\* FormatLocal as it would be with utcfromtimestamp for fromtimestamp
FormatUtc(dd, off, pad) ==
    FormatDate(CivilFromDays(ToInt(dd)), CivilFromDays(ToInt(dd) - 1), pad)

\* dd: the day number and the second of the day in UTC
FormatLocal(dd, off, pad) ==
    FormatDate(CivilFromDays(ToInt(dd) + (dd.r + off) \div 86400),
               CivilFromDays(ToInt(dd) + (dd.r + off) \div 86400 - 1), pad)

FormatSeconds(sec, off, pad) ==
    IF Len(sec.mag) > 13
    THEN [exc |-> "ValueError", text |-> <<>>]
    ELSE FormatLocal(FloorDiv(sec, 86400), off, pad)

\* datetime.fromtimestamp(timestamp_ms / 1000).strftime('%Y-%m-%d') for the
\* wide integer ms, in the zone off seconds east of UTC.  exc = "" is success.
FromTimestampFormatted(ms, off, pad) ==
    IF MagGeq(ms.mag, TimeTLimitMs)
    THEN [exc |-> "OverflowError", text |-> <<>>]
    ELSE IF MagGeq(ms.mag, TmYearLimitMs)
    THEN [exc |-> "OSError", text |-> <<>>]
    ELSE FormatSeconds(FloorDiv(ms, 1000), off, pad)

-----------------------------------------------------------------------------
(* PhoenixPermitScraper._parse_date                                        *)

Returns(v) == [kind |-> "return", val |-> v, exc |-> ""]
Raises(e) == [kind |-> "raise", val |-> None, exc |-> e]

\* lines 67-71: the formatted date, None after a ValueError, or the
\* exception the except clause does not name
DateResult(f) ==
    IF f.exc = "" THEN Returns(Str(f.text))
    ELSE IF f.exc = "ValueError" THEN Returns(None)
    ELSE Raises(f.exc)

\* lines 66-71, from the result of int()
ParseTimestamp(timestamp_ms, off, pad) ==
    IF ~timestamp_ms.ok THEN Returns(None)
    ELSE DateResult(FromTimestampFormatted(timestamp_ms, off, pad))

ParseDate(date_string, off, pad) ==
    IF ~Truthy(date_string) THEN Returns(None)
    ELSE IF date_string.t # "str" THEN Raises("AttributeError")
    ELSE IF ~StartsWith(date_string.s, DatePrefix) THEN Returns(None)
    ELSE ParseTimestamp(PyInt(Strip(date_string.s, DateStripChars)), off, pad)

-----------------------------------------------------------------------------
(* PhoenixPermitScraper._process_permit_data                               *)

NoRecord ==
    [permit_number |-> None, address |-> None, contractor |-> None,
     issued_date |-> None, permit_type |-> None, status |-> None]

\* the three things a call can do: return a dict, return None, raise
Accept(rec) == [kind |-> "record", rec |-> rec, exc |-> ""]
Reject == [kind |-> "none", rec |-> NoRecord, exc |-> ""]
Fault(e) == [kind |-> "raise", rec |-> NoRecord, exc |-> e]
NotCalled == [kind |-> "idle", rec |-> NoRecord, exc |-> ""]

\* BuildPermit as it would be with `and` for `or` in the validation
BuildPermitEitherField(permit_json, issued_date) ==
    IF issued_date.kind = "raise" THEN Fault(issued_date.exc)
    ELSE IF /\ ~Truthy(Get(permit_json, "TypeNumber"))
            /\ ~Truthy(Get(permit_json, "PermitAddress"))
    THEN Reject
    ELSE Accept([permit_number |-> Get(permit_json, "TypeNumber"),
                 address |-> Get(permit_json, "PermitAddress"),
                 contractor |-> Get(permit_json, "ProfessionalName"),
                 issued_date |-> issued_date.val,
                 permit_type |-> Get(permit_json, "PermitType"),
                 status |-> Get(permit_json, "Status")])

\* lines 91-103, from the result of _parse_date
BuildPermit(permit_json, issued_date) ==
    IF issued_date.kind = "raise" THEN Fault(issued_date.exc)
    ELSE IF \/ ~Truthy(Get(permit_json, "TypeNumber"))
            \/ ~Truthy(Get(permit_json, "PermitAddress"))
    THEN Reject
    ELSE Accept([permit_number |-> Get(permit_json, "TypeNumber"),
                 address |-> Get(permit_json, "PermitAddress"),
                 contractor |-> Get(permit_json, "ProfessionalName"),
                 issued_date |-> issued_date.val,
                 permit_type |-> Get(permit_json, "PermitType"),
                 status |-> Get(permit_json, "Status")])

\* lines 83-103: the date is decoded before the required fields are looked at
ProcessPermitData(permit_json, off, pad) ==
    BuildPermit(permit_json,
                ParseDate(Get(permit_json, "IssuedDate"), off, pad))

-----------------------------------------------------------------------------
(* The raw records the normalizer is exercised on                          *)

\* inner texts that are decimal integers, with or without a minus sign
IntegerInners ==
    {<<"0">>,
     <<"8", "6", "3", "9", "9", "9", "9", "9">>,
     <<"8", "6", "4", "0", "0", "0", "0", "0">>,
     <<"1", "7", "0", "0", "0", "0", "0", "0", "0", "0", "0", "0", "0">>,
     <<"2", "5", "3", "4", "0", "2", "3", "0", "0", "7", "9", "9", "9", "9", "9">>,
     <<"2", "5", "3", "4", "0", "2", "3", "0", "0", "8", "0", "0", "0", "0", "0">>,
     <<"9", "9", "9", "9", "9", "9", "9", "9", "9", "9", "9", "9", "9", "9", "9", "9", "9">>,
     <<"9", "9", "9", "9", "9", "9", "9", "9", "9", "9", "9", "9", "9", "9", "9", "9", "9", "9", "9", "9">>,
     <<"9", "9", "9", "9", "9", "9", "9", "9", "9", "9", "9", "9", "9", "9", "9", "9", "9", "9", "9", "9", "9", "9", "9", "9", "9">>,
     <<"-", "1">>,
     <<"-", "3", "0", "6", "1", "0", "2", "2", "4", "0", "0", "0", "0", "0", "1">>,
     <<"-", "6", "2", "1", "3", "5", "5", "9", "6", "8", "0", "0", "0", "0", "0">>}

\* inner texts that only Python's int() takes for integers
LenientInners ==
    {<<" ", "5">>,
     <<"+", "5">>,
     <<"1", "_", "0">>,
     <<"0", "0", "7">>}

\* inner texts that are no integers
BrokenInners ==
    {<<>>,
     <<"a", "b", "c">>,
     <<"1", "x">>,
     <<"1", ".", "5">>}

SamplePrefixes ==
    {<<"/", "D", "a", "t", "e", "(">>,
     <<"/", "D", "a", "t", "e", "(", "/", "D", "a", "t", "e", "(">>,
     <<"D", "a", "t", "e", "(">>,
     <<>>}

SampleSuffixes ==
    {<<")", "/">>,
     <<>>,
     <<")">>,
     <<")", "/", ")", "/">>,
     <<")", "/", "x">>,
     <<"/">>}

DateSuffix == <<")", "/">>

SampleDateStrings ==
    {p \o i \o s : p \in SamplePrefixes,
                   i \in IntegerInners \cup LenientInners \cup BrokenInners,
                   s \in SampleSuffixes}
        \cup {<<"g", "a", "r", "b", "a", "g", "e">>}

SampleIssuedDates ==
    {Str(s) : s \in SampleDateStrings}
        \cup {Absent, None, Num(0), Num(5), NonEmptyList}

PermitNo1 == Str(<<"R", "P", "V", "1">>)
PermitNo2 == Str(<<"R", "P", "V", "2">>)
Address1 == Str(<<"1", " ", "W", " ", "E", "l", "m">>)
Contractor1 == Str(<<"S", "u", "n", " ", "C", "o">>)
TypeRPV == Str(<<"R", "P", "V">>)
StatusOpen == Str(<<"O", "P", "E", "N">>)

SampleRawRecords ==
    [TypeNumber : {Absent, None, Str(<<>>), Num(0), PermitNo1},
     PermitAddress : {Absent, Str(<<>>), Address1},
     ProfessionalName : {Absent, Contractor1},
     IssuedDate : SampleIssuedDates,
     PermitType : {TypeRPV},
     Status : {StatusOpen}]

\* seconds east of UTC: Phoenix (no daylight saving), UTC, Paris in winter
TzOffsets == {0 - 25200, 0, 3600}

-----------------------------------------------------------------------------
(* Bounds of the fetch runs explored                                       *)

\* the largest "Total" the server reports, and the most requests of a run
MaxTotal == 3
MaxPages == 3

\* the page sizes the scraper is constructed with
PageSizes == {1, 2}

\* the calls explored, <<start_date_str, end_date_str, delay_seconds>>: the
\* one of the main block (default delay) and one without delay
Calls ==
    {<<"03/27/2025", "04/26/2025", 1>>, <<"01/01/2025", "01/31/2025", 0>>}

\* an accepted record with a decodable date, an accepted record with an
\* undecodable date, a record the normalizer rejects, and a record whose
\* IssuedDate is a JSON number
GoodRecord ==
    [TypeNumber |-> PermitNo1, PermitAddress |-> Address1,
     ProfessionalName |-> Contractor1,
     IssuedDate |-> Str(DatePrefix \o <<"1", "7", "0", "0", "0", "0", "0", "0", "0", "0", "0", "0", "0">> \o DateSuffix),
     PermitType |-> TypeRPV, Status |-> StatusOpen]
UndatedRecord ==
    [TypeNumber |-> PermitNo2, PermitAddress |-> Address1,
     ProfessionalName |-> Absent, IssuedDate |-> Str(<<"g", "a", "r", "b", "a", "g", "e">>),
     PermitType |-> TypeRPV, Status |-> StatusOpen]
NumberlessRecord ==
    [TypeNumber |-> Absent, PermitAddress |-> Address1,
     ProfessionalName |-> Contractor1, IssuedDate |-> None,
     PermitType |-> TypeRPV, Status |-> StatusOpen]
NumericDateRecord ==
    [TypeNumber |-> PermitNo1, PermitAddress |-> Address1,
     ProfessionalName |-> Contractor1, IssuedDate |-> Num(5),
     PermitType |-> TypeRPV, Status |-> StatusOpen]

FetchRawRecords ==
    {GoodRecord, UndatedRecord, NumberlessRecord, NumericDateRecord}

RECURSIVE SeqsOfLen(_, _)
SeqsOfLen(S, n) ==
    IF n = 0 THEN {<<>>}
    ELSE {Append(q, x) : q \in SeqsOfLen(S, n - 1), x \in S}

SeqsUpTo(S, n) == UNION {SeqsOfLen(S, k) : k \in 0..n}

\* what the server can answer: the request fails (connection, HTTP status,
\* body that is no JSON; a body that is JSON null reads as None as well), or
\* the body is an object with or without "Data" and "Total"
FailureOutcomes ==
    {"ConnectionError", "HTTPError", "JSONDecodeError", "JsonNull"}

Failure(kind) ==
    [outcome |-> kind, hasData |-> FALSE, Data |-> <<>>, Total |-> Absent]

Responses(size) ==
    {Failure(k) : k \in FailureOutcomes}
        \cup [outcome : {"ok"}, hasData : {TRUE},
              Data : SeqsUpTo(FetchRawRecords, size),
              Total : {Absent} \cup {Num(n) : n \in 0..MaxTotal}]
        \cup [outcome : {"ok"}, hasData : {FALSE}, Data : {<<>>},
              Total : {Absent, Num(MaxTotal)}]

-----------------------------------------------------------------------------
(* PhoenixPermitScraper._make_request                                      *)

\* every exception of the post, of raise_for_status and of json() is caught
\* and the method then returns None
MakeRequest(resp) ==
    IF resp.outcome \in FailureOutcomes
    THEN [isNone |-> TRUE, body |-> Failure(resp.outcome)]
    ELSE [isNone |-> FALSE, body |-> resp]

-----------------------------------------------------------------------------
(* PhoenixPermitScraper.fetch_permits_for_date_range                       *)

\* Payload as it would be with the two dates the wrong way round
PayloadDatesSwapped(page, size, start, stop) ==
    [sort |-> "", page |-> page, pageSize |-> size, group |-> "",
     filter |-> "", PermitType |-> "", PermitNumber |-> "",
     TempPermit |-> "Y", AddrNumber |-> "", AddrDirection |-> "",
     AddrStreet |-> "", AddrType |-> "", ProfName |-> "",
     ProfStateLicense |-> "", ProjectNumber |-> "", ProjectName |-> "",
     SolarGreenAdaptive |-> "solar",
     SolarGreenAdaptiveStartDate |-> stop,
     SolarGreenAdaptiveEndDate |-> start]

\* lines 125-145
Payload(page, size, start, stop) ==
    [sort |-> "", page |-> page, pageSize |-> size, group |-> "",
     filter |-> "", PermitType |-> "", PermitNumber |-> "",
     TempPermit |-> "Y", AddrNumber |-> "", AddrDirection |-> "",
     AddrStreet |-> "", AddrType |-> "", ProfName |-> "",
     ProfStateLicense |-> "", ProjectNumber |-> "", ProjectName |-> "",
     SolarGreenAdaptive |-> "solar",
     SolarGreenAdaptiveStartDate |-> start,
     SolarGreenAdaptiveEndDate |-> stop]

\* AppendProcessed as it would be if records were inserted at the front
PrependProcessed(acc, processed) ==
    IF processed.kind = "record" THEN <<processed.rec>> \o acc ELSE acc

\* AppendProcessed as it would be if the record were assigned to the
\* accumulator instead of appended
AssignProcessed(acc, processed) ==
    IF processed.kind = "record" THEN <<processed.rec>> ELSE acc

\* lines 172-175 for one record: processed is what _process_permit_data did
AppendProcessed(acc, processed) ==
    IF processed.kind = "record" THEN Append(acc, processed.rec) ELSE acc

\* the for loop of lines 171-175 over one page: the records appended, and
\* the exception that ended the loop early, if one did
RECURSIVE NormalizePage(_, _, _, _)
NormalizeNext(rest, acc, processed, off, pad) ==
    IF processed.kind = "raise"
    THEN [permits |-> acc, exc |-> processed.exc]
    ELSE NormalizePage(rest, AppendProcessed(acc, processed), off, pad)

NormalizePage(permit_list_json, acc, off, pad) ==
    IF permit_list_json = <<>> THEN [permits |-> acc, exc |-> ""]
    ELSE NormalizeNext(Tail(permit_list_json), acc,
                       ProcessPermitData(Head(permit_list_json), off, pad),
                       off, pad)

\* StopAfterPage as it would be with > for >=
StopAfterPageStrict(count, total, rawCount, size) ==
    count > total \/ rawCount < size

\* StopAfterPage as it would be if the raw rows of the page were compared
\* with the total
StopAfterPageRawRows(count, total, rawCount, size) ==
    rawCount >= total \/ rawCount < size

\* StopAfterPage as it would be without the test for a short page
StopAfterPageTotalOnly(count, total, rawCount, size) ==
    count >= total

\* StopAfterPage as it would be with `and` for `or`
StopAfterPageBoth(count, total, rawCount, size) ==
    count >= total /\ rawCount < size

\* line 181: whether the loop breaks after a page has been accumulated
StopAfterPage(count, total, rawCount, size) ==
    count >= total \/ rawCount < size

NotReturned == [done |-> FALSE, value |-> <<>>]
Return(v) == [done |-> TRUE, value |-> v]

\* the state of the parts a specification does not exercise
FetchIdle ==
    /\ page_size = 1
    /\ start_date_str = ""
    /\ end_date_str = ""
    /\ delay_seconds = 0
    /\ pc = "idle"
    /\ current_page = 1
    /\ total_records = 0
    /\ all_permits = <<>>
    /\ returned = NotReturned
    /\ requests = <<>>
    /\ log = <<>>
    /\ pages = <<>>
    /\ last_response = Failure("none")

NormalizerIdle ==
    /\ raw_in = NumberlessRecord
    /\ norm_out = NotCalled

NoFile == [exists |-> FALSE, rows |-> <<>>]
NoCall == [state |-> "idle", failed_at |-> 0]

SinkIdle ==
    /\ csv_data = <<>>
    /\ csv_file = NoFile
    /\ csv_call = NoCall

\* lines 117-121, on a machine in Phoenix
Init ==
    /\ page_size \in PageSizes
    /\ \E call \in Calls :
           /\ start_date_str = call[1]
           /\ end_date_str = call[2]
           /\ delay_seconds = call[3]
    /\ pc = "Requesting"
    /\ current_page = 1
    /\ total_records = 0
    /\ all_permits = <<>>
    /\ returned = NotReturned
    /\ requests = <<>>
    /\ log = <<>>
    /\ pages = <<>>
    /\ last_response = Failure("none")
    /\ tz_offset = 0 - 25200
    /\ pad_year = FALSE
    /\ NormalizerIdle
    /\ SinkIdle

\* lines 124-147: build the payload and post it
IssueRequest ==
    /\ pc = "Requesting"
    /\ current_page <= MaxPages
    /\ requests' = Append(requests,
                          Payload(current_page, page_size,
                                  start_date_str, end_date_str))
    /\ log' = Append(log, <<"request", current_page>>)
    /\ pc' = "Awaiting"
    /\ UNCHANGED <<page_size, start_date_str, end_date_str, delay_seconds,
                   current_page, total_records, all_permits, returned,
                   pages, last_response>>
    /\ UNCHANGED <<platformVars, normVars, csvVars>>

\* AdvanceAndSleep as it would be if the sleep came before the increment
SleepThenAdvance(page, delay) ==
    [page |-> page + 1, entry |-> <<"sleep", delay, page>>]

\* lines 186-188: the page index is advanced, then the sleep is taken; the
\* entry of the sleep holds the page index at the time of the call
AdvanceAndSleep(page, delay) ==
    [page |-> page + 1, entry |-> <<"sleep", delay, page + 1>>]

\* lines 178-191: after the page has been accumulated
AfterPage(permit_list_json, total, page) ==
    /\ total_records' = total
    /\ pages' = Append(pages, permit_list_json)
    /\ all_permits' = page.permits
    /\ IF page.exc # ""
       THEN /\ pc' = "Raised"
            /\ UNCHANGED <<current_page, returned, log>>
       ELSE IF StopAfterPage(Len(page.permits), total,
                             Len(permit_list_json), page_size)
       THEN /\ pc' = "Done"
            /\ returned' = Return(page.permits)
            /\ UNCHANGED <<current_page, log>>
       ELSE /\ current_page' = AdvanceAndSleep(current_page, delay_seconds).page
            /\ log' = Append(log,
                             AdvanceAndSleep(current_page, delay_seconds).entry)
            /\ pc' = "Requesting"
            /\ UNCHANGED returned

\* AfterBody as it would be if an empty page after the first were skipped
\* with `continue` instead of ending the loop
AfterBodyEmptyContinues(permit_list_json, total) ==
    IF permit_list_json = <<>> /\ current_page > 1
    THEN /\ pc' = "Requesting"
         /\ current_page' = current_page + 1
         /\ UNCHANGED <<total_records, all_permits, returned, log, pages>>
    ELSE IF current_page = 1
            /\ (total = 0 \/ (total > 0 /\ permit_list_json = <<>>))
    THEN /\ total_records' = total
         /\ pc' = "Done"
         /\ returned' = Return(all_permits)
         /\ UNCHANGED <<current_page, all_permits, log, pages>>
    ELSE AfterPage(permit_list_json, total,
                   NormalizePage(permit_list_json, all_permits,
                                 tz_offset, pad_year))

\* lines 154-191: permit_list_json is the "Data" of the body, total the
\* total the stopping rule uses from here on
AfterBody(permit_list_json, total) ==
    IF permit_list_json = <<>> /\ current_page > 1
    THEN /\ pc' = "Done"
         /\ returned' = Return(all_permits)
         /\ UNCHANGED <<current_page, total_records, all_permits, log, pages>>
    ELSE IF current_page = 1
            /\ (total = 0 \/ (total > 0 /\ permit_list_json = <<>>))
    THEN /\ total_records' = total
         /\ pc' = "Done"
         /\ returned' = Return(all_permits)
         /\ UNCHANGED <<current_page, all_permits, log, pages>>
    ELSE AfterPage(permit_list_json, total,
                   NormalizePage(permit_list_json, all_permits,
                                 tz_offset, pad_year))

\* TotalAfter as it would be if "Total" were read from every page
TotalAfterEveryPage(body) ==
    IF body.Total.t = "absent" THEN 0 ELSE body.Total.n

\* TotalAfter as it would be with 1 for the default of "Total"
TotalAfterDefaultOne(body) ==
    IF current_page # 1 THEN total_records
    ELSE IF body.Total.t = "absent" THEN 1
    ELSE body.Total.n

\* line 160: "Total" is read on page 1 only, 0 when the body has none
TotalAfter(body) ==
    IF current_page # 1 THEN total_records
    ELSE IF body.Total.t = "absent" THEN 0
    ELSE body.Total.n

\* AfterRequest as it would be if a failed request were posted again
AfterRequestRetrying(response_data) ==
    IF response_data.isNone
    THEN /\ pc' = "Requesting"
         /\ UNCHANGED <<current_page, total_records, all_permits, returned,
                        log, pages>>
    ELSE AfterBody(IF response_data.body.hasData
                   THEN response_data.body.Data ELSE <<>>,
                   TotalAfter(response_data.body))

\* lines 149-191, from what _make_request returned
AfterRequest(response_data) ==
    IF response_data.isNone
    THEN /\ pc' = "Failed"
         /\ returned' = Return(all_permits)
         /\ UNCHANGED <<current_page, total_records, all_permits, log, pages>>
    ELSE AfterBody(IF response_data.body.hasData
                   THEN response_data.body.Data ELSE <<>>,
                   TotalAfter(response_data.body))

\* lines 147-191: the rest of the loop body for the response resp, up to the
\* next request or to the return
ReceiveResponse ==
    /\ pc = "Awaiting"
    /\ \E resp \in Responses(page_size) :
           /\ last_response' = resp
           /\ AfterRequest(MakeRequest(resp))
    /\ UNCHANGED <<page_size, start_date_str, end_date_str, delay_seconds,
                   requests>>
    /\ UNCHANGED <<platformVars, normVars, csvVars>>

Next == IssueRequest \/ ReceiveResponse

Spec == Init /\ [][Next]_vars

-----------------------------------------------------------------------------
(* The normalizer on its own: one call of _process_permit_data             *)

InitNormalizer ==
    /\ FetchIdle
    /\ SinkIdle
    /\ tz_offset \in TzOffsets
    /\ pad_year \in BOOLEAN
    /\ raw_in \in SampleRawRecords
    /\ norm_out = NotCalled

CallProcessPermitData ==
    /\ pc = "idle"
    /\ norm_out = NotCalled
    /\ norm_out' = ProcessPermitData(raw_in, tz_offset, pad_year)
    /\ UNCHANGED <<raw_in, fetchVars, platformVars, csvVars>>

SpecNormalizer == InitNormalizer /\ [][CallProcessPermitData]_vars

-----------------------------------------------------------------------------
(* save_to_csv                                                             *)

\* the most records handed to save_to_csv
MaxRows == 2

\* the keys of the dict built at lines 95-102, in insertion order
FieldNames ==
    <<"permit_number", "address", "contractor", "issued_date",
      "permit_type", "status">>

\* data[0].keys()
Keys(rec) == SelectSeq(FieldNames, LAMBDA k : k \in DOMAIN rec)

\* the text csv.writer puts in a cell: nothing for None
Cell(v) == IF v.t = "null" THEN <<>> ELSE v.s

\* DictWriter.writeheader and one row of DictWriter.writerows
HeaderRow(fieldnames) == [i \in 1..Len(fieldnames) |-> <<fieldnames[i]>>]
DataRow(fieldnames, rec) ==
    [i \in 1..Len(fieldnames) |-> Cell(rec[fieldnames[i]])]

\* AllRows as it would be without the call of writeheader
RowsWithoutHeader(data) ==
    [i \in 1..Len(data) |-> DataRow(Keys(data[1]), data[i])]

\* lines 211-214: every row written if nothing fails
AllRows(data) ==
    <<HeaderRow(Keys(data[1]))>>
        \o [i \in 1..Len(data) |-> DataRow(Keys(data[1]), data[i])]

\* lines 201-219.  failed_at = 0: nothing fails; 1: open() fails; n + 1: the
\* n-th write fails, and what was written before it stays in the file
WriteCsv(data, old, failed_at) ==
    IF data = <<>> THEN old
    ELSE IF failed_at = 0 THEN [exists |-> TRUE, rows |-> AllRows(data)]
    ELSE IF failed_at = 1 THEN old
    ELSE [exists |-> TRUE, rows |-> SubSeq(AllRows(data), 1, failed_at - 2)]

SampleNormalized ==
    {ProcessPermitData(r, 0 - 25200, FALSE).rec :
         r \in {GoodRecord, UndatedRecord,
                [GoodRecord EXCEPT !.TypeNumber = PermitNo2,
                                   !.Status = Absent],
                [UndatedRecord EXCEPT !.PermitType = Absent]}}

OldFile == [exists |-> TRUE, rows |-> <<<<<<"o", "l", "d">>>>>>]

InitSink ==
    /\ FetchIdle
    /\ NormalizerIdle
    /\ tz_offset = 0 - 25200
    /\ pad_year = FALSE
    /\ csv_data \in SeqsUpTo(SampleNormalized, MaxRows)
    /\ csv_file \in {NoFile, OldFile}
    /\ csv_call = NoCall

SaveToCsv ==
    /\ csv_call.state = "idle"
    /\ \E failed_at \in 0..(Len(csv_data) + 2) :
           /\ csv_data = <<>> => failed_at = 0
           /\ csv_call' = [state |-> "returned", failed_at |-> failed_at]
           /\ csv_file' = WriteCsv(csv_data, csv_file, failed_at)
    /\ UNCHANGED <<csv_data, fetchVars, platformVars, normVars>>

SpecSink == InitSink /\ [][SaveToCsv]_vars

-----------------------------------------------------------------------------
(* The fetcher and the normalizer side by side                             *)

SpecFetchAndNormalizer ==
    (Init \/ InitNormalizer) /\ [][Next \/ CallProcessPermitData]_vars

-----------------------------------------------------------------------------
(* Vocabulary of the properties                                            *)

\* a value counts as missing when it is absent, null, the empty string or 0
Missing(v) ==
    \/ v.t \in {"absent", "null"}
    \/ v.t = "str" /\ v.s = <<>>
    \/ v.t = "int" /\ v.n = 0

\* the normalizer returns a record for the raw record r
Accepted(r) == ProcessPermitData(r, tz_offset, pad_year).kind = "record"

\* the normalized forms of the accepted records of a list of raw records, in
\* list order
RECURSIVE AcceptedOfRows(_)
AcceptedOfRows(rows) ==
    IF rows = <<>> THEN <<>>
    ELSE (IF Accepted(Head(rows))
          THEN <<ProcessPermitData(Head(rows), tz_offset, pad_year).rec>>
          ELSE <<>>) \o AcceptedOfRows(Tail(rows))

\* the same over a list of pages, in page order
RECURSIVE AcceptedOfPages(_)
AcceptedOfPages(ps) ==
    IF ps = <<>> THEN <<>>
    ELSE AcceptedOfRows(Head(ps)) \o AcceptedOfPages(Tail(ps))

AllAccepted(rows) == \A i \in 1..Len(rows) : Accepted(rows[i])

\* the page indices of the requests sent so far
RequestedPages == [i \in 1..Len(requests) |-> requests[i].page]

\* the run is over: it returned or raised
Ended == pc \in {"Done", "Failed", "Raised"}

\* the response being received in this step is a body with these properties
ReceivingPage(n) ==
    /\ pc = "Awaiting"
    /\ current_page = n
    /\ last_response'.outcome = "ok"

-----------------------------------------------------------------------------
(* C1 *)

\* C1: when the request for page n fails (connection, HTTP status, body that
\* cannot be parsed), the run ends there without raising: nothing more is
\* requested, page n was requested once, and the value returned is the
\* normalized records of pages 1..n-1 in their order.
C1_FailureReturnsEarlierPages ==
    last_response.outcome \in FailureOutcomes =>
        /\ pc = "Failed"
        /\ returned = [done |-> TRUE, value |-> AcceptedOfPages(pages)]
        /\ Len(pages) = current_page - 1
        /\ RequestedPages = [i \in 1..current_page |-> i]
        /\ log[Len(log)] = <<"request", current_page>>
        /\ ~ENABLED Next

C1_Witness ==
    /\ pc = "Failed"
    /\ current_page = 2
    /\ last_response.outcome = "ConnectionError"
    /\ Len(returned.value) = 2

-----------------------------------------------------------------------------
(* C2 *)

\* C2: when the response to page 1 reports Total = 0 or has no Total, the run
\* returns the empty sequence after that one request, whatever the Data of
\* the page holds, and requests nothing afterwards.
C2_ZeroTotalReturnsEmpty ==
    [][/\ ~Ended
       /\ (ReceivingPage(1) /\ last_response'.Total \in {Absent, Num(0)}) =>
              /\ pc' = "Done"
              /\ returned' = [done |-> TRUE, value |-> <<>>]
              /\ RequestedPages' = <<1>>]_vars

C2_Witness ==
    /\ pc = "Done"
    /\ current_page = 1
    /\ last_response.hasData
    /\ Len(last_response.Data) = 2
    /\ AllAccepted(last_response.Data)
    /\ last_response.Total = Absent
    /\ returned = [done |-> TRUE, value |-> <<>>]
    /\ Len(requests) = 1

-----------------------------------------------------------------------------
(* C3 *)

\* C3 as stated: when page 1 has exactly pageSize raw records and reports
\* Total = pageSize, there is exactly one request and the result has
\* pageSize records.  (A run that the normalizer ends with an exception is
\* left aside here: it returns no result at all.)
C3_AsStated ==
    [][(/\ ReceivingPage(1)
        /\ Len(last_response'.Data) = page_size
        /\ last_response'.Total = Num(page_size)
        /\ pc' # "Raised") =>
            /\ pc' = "Done"
            /\ Len(returned'.value) = page_size
            /\ RequestedPages' = <<1>>]_vars

\* C3 as amended: when page 1 has exactly pageSize raw records, the
\* normalizer accepts every one of them, and the page reports
\* Total = pageSize, there is exactly one request and the result has
\* pageSize records.
C3_FullAcceptedPageStops ==
    [][/\ ~Ended
       /\ (/\ ReceivingPage(1)
           /\ Len(last_response'.Data) = page_size
           /\ AllAccepted(last_response'.Data)
           /\ last_response'.Total = Num(page_size)) =>
               /\ pc' = "Done"
               /\ returned'.done
               /\ Len(returned'.value) = page_size
               /\ RequestedPages' = <<1>>]_vars

C3_Witness ==
    /\ pc = "Done"
    /\ current_page = 1
    /\ page_size = 2
    /\ Len(last_response.Data) = page_size
    /\ last_response.Total = Num(page_size)
    /\ Len(returned.value) = page_size
    /\ Len(requests) = 1

-----------------------------------------------------------------------------
(* C4 *)

\* page 1 was full and reported pageSize + k for its total, and the page
\* being received is page 2 with k raw records, 0 < k < pageSize
ReceivingSecondOfTwo ==
    /\ ReceivingPage(2)
    /\ Len(pages) = 1
    /\ Len(pages[1]) = page_size
    /\ Len(last_response'.Data) \in 1..(page_size - 1)
    /\ total_records = page_size + Len(last_response'.Data)

\* the run made exactly the requests for page 1 and page 2, with one sleep
\* of the configured delay between them
TwoRequestsOneDelay ==
    /\ RequestedPages = <<1, 2>>
    /\ log = <<<<"request", 1>>, <<"sleep", delay_seconds, 2>>,
               <<"request", 2>>>>

-----------------------------------------------------------------------------
(* C5 *)

HasBothFields(rec) == ~Missing(rec.permit_number) /\ ~Missing(rec.address)

\* C5: the normalizer returns no record for a raw record whose TypeNumber or
\* PermitAddress is missing, and at every point of a fetch run every record
\* accumulated or returned has a permit_number and an address.
C5_RequiredFieldsPresent ==
    /\ (/\ norm_out.kind # "idle"
        /\ Missing(raw_in.TypeNumber) \/ Missing(raw_in.PermitAddress)) =>
            norm_out.kind # "record"
    /\ norm_out.kind = "record" => HasBothFields(norm_out.rec)
    /\ \A i \in 1..Len(all_permits) : HasBothFields(all_permits[i])
    /\ \A i \in 1..Len(returned.value) : HasBothFields(returned.value[i])

C5_Witness ==
    /\ pc = "Done"
    /\ Len(pages) = 1
    /\ pages[1] = <<NumberlessRecord, GoodRecord>>
    /\ Len(returned.value) = 1
    /\ returned.value[1].permit_number = PermitNo1

-----------------------------------------------------------------------------
(* Vocabulary of the date properties                                       *)

\* the text is "/Date(" then something then ")/"
HasWrapper(s) ==
    /\ Len(s) >= Len(DatePrefix) + Len(DateSuffix)
    /\ SubSeq(s, 1, Len(DatePrefix)) = DatePrefix
    /\ SubSeq(s, Len(s) - Len(DateSuffix) + 1, Len(s)) = DateSuffix

Inner(s) == SubSeq(s, Len(DatePrefix) + 1, Len(s) - Len(DateSuffix))

\* decimal digits, with or without a minus sign in front
IsDecimal(s) ==
    LET ds == IF s # <<>> /\ Head(s) = "-" THEN Tail(s) ELSE s
    IN  ds # <<>> /\ \A i \in 1..Len(ds) : ds[i] \in Digits

WellFormedDate(s) == HasWrapper(s) /\ IsDecimal(Inner(s))

\* the raw record has a permit number and an address
HasRequired(r) == ~Missing(r.TypeNumber) /\ ~Missing(r.PermitAddress)

\* the wide integer a decimal text denotes
DecimalValue(s) ==
    [neg |-> Head(s) = "-" /\ Magnitude(s) # <<>>, mag |-> Magnitude(s)]

\* days from 1970-01-01 to the day y-m-d, by counting years and months
LeapYear(y) == y % 4 = 0 /\ (y % 100 # 0 \/ y % 400 = 0)
LeapDaysBefore(y) == (y - 1) \div 4 - (y - 1) \div 100 + (y - 1) \div 400
MonthLengths(y) ==
    <<31, IF LeapYear(y) THEN 29 ELSE 28, 31, 30, 31, 30, 31, 31, 30, 31, 30,
      31>>
RECURSIVE DaysBeforeMonth(_, _)
DaysBeforeMonth(y, m) ==
    IF m = 1 THEN 0
    ELSE DaysBeforeMonth(y, m - 1) + MonthLengths(y)[m - 1]
DaysFromCivil(y, m, d) ==
    365 * (y - 1970) + LeapDaysBefore(y) - LeapDaysBefore(1970)
        + DaysBeforeMonth(y, m) + d - 1

\* the local day number of the instant ms milliseconds after the epoch,
\* for ms of at most 15 digits
LocalDay(ms, off) ==
    LET whole == FloorDiv(ms, 86400000)
    IN  ToInt(whole) + (whole.r + off * 1000) \div 86400000

\* the local date of ms has a year between 1000 and 9999
FourDigitYear(ms, off) ==
    /\ Len(ms.mag) <= 15
    /\ LocalDay(ms, off) >= DaysFromCivil(1000, 1, 1)
    /\ LocalDay(ms, off) <= DaysFromCivil(9999, 12, 31)

TwoDigits(s, i) == DigitVal(s[i]) * 10 + DigitVal(s[i + 1])

\* text is YYYY-MM-DD and names the day with number day
IsoDateOfDay(text, day) ==
    /\ Len(text) = 10
    /\ text[5] = "-" /\ text[8] = "-"
    /\ \A i \in {1, 2, 3, 4, 6, 7, 9, 10} : text[i] \in Digits
    /\ LET y == TwoDigits(text, 1) * 100 + TwoDigits(text, 3)
           m == TwoDigits(text, 6)
           d == TwoDigits(text, 9)
       IN  /\ m \in 1..12
           /\ d \in 1..MonthLengths(y)[m]
           /\ DaysFromCivil(y, m, d) = day

DateText(inner) == Str(DatePrefix \o inner \o DateSuffix)

-----------------------------------------------------------------------------
(* C6 *)

\* C6: the normalizer never raises, whatever the fields of the raw record
\* hold, and so no fetch run ends with an exception of the normalizer.
C6_NeverRaises == norm_out.kind # "raise" /\ pc # "Raised"

-----------------------------------------------------------------------------
(* C7 *)

\* C7: for a date text that is not exactly "/Date(" + an integer + ")/" (any
\* text int() accepts counting as an integer), the normalizer still returns
\* the record when permit number and address are there, with issued_date
\* absent.
C7_MalformedDateIsAbsent ==
    (/\ norm_out.kind # "idle"
     /\ raw_in.IssuedDate.t = "str"
     /\ ~(HasWrapper(raw_in.IssuedDate.s)
          /\ PyInt(Inner(raw_in.IssuedDate.s)).ok)
     /\ HasRequired(raw_in)) =>
        /\ norm_out.kind = "record"
        /\ norm_out.rec.issued_date = None

-----------------------------------------------------------------------------
(* C8 *)

\* the record was normalized and its IssuedDate is "/Date(<ms>)/"
DecodedWellFormed ==
    /\ norm_out.kind # "idle"
    /\ raw_in.IssuedDate.t = "str"
    /\ WellFormedDate(raw_in.IssuedDate.s)
    /\ HasRequired(raw_in)

TimestampOfInput == DecimalValue(Inner(raw_in.IssuedDate.s))

\* C8: for every well-formed "/Date(<ms>)/" the decoded issued_date is the
\* local calendar date of that instant, as YYYY-MM-DD.
C8_AsStated ==
    DecodedWellFormed =>
        /\ norm_out.kind = "record"
        /\ norm_out.rec.issued_date.t = "str"
        /\ Len(TimestampOfInput.mag) <= 15
        /\ IsoDateOfDay(norm_out.rec.issued_date.s,
                        LocalDay(TimestampOfInput, tz_offset))

\* What does hold of C8: the decoded issued_date is that local calendar date
\* for every well-formed "/Date(<ms>)/" whose local calendar date has a year
\* from 1000 to 9999.  Three instants whose dates are known pin the calendar
\* down.
C8_DecodesLocalDate ==
    /\ (DecodedWellFormed /\ FourDigitYear(TimestampOfInput, tz_offset)) =>
           /\ norm_out.kind = "record"
           /\ norm_out.rec.issued_date.t = "str"
           /\ IsoDateOfDay(norm_out.rec.issued_date.s,
                           LocalDay(TimestampOfInput, tz_offset))
    /\ (DecodedWellFormed /\ tz_offset = 0) =>
           /\ raw_in.IssuedDate = DateText(<<"1", "7", "0", "0", "0", "0", "0", "0", "0", "0", "0", "0", "0">>) =>
                  norm_out.rec.issued_date = Str(<<"2", "0", "2", "3", "-", "1", "1", "-", "1", "4">>)
           /\ raw_in.IssuedDate = DateText(<<"2", "5", "3", "4", "0", "2", "3", "0", "0", "7", "9", "9", "9", "9", "9">>) =>
                  norm_out.rec.issued_date = Str(<<"9", "9", "9", "9", "-", "1", "2", "-", "3", "1">>)
           /\ raw_in.IssuedDate = DateText(<<"-", "1">>) =>
                  norm_out.rec.issued_date = Str(<<"1", "9", "6", "9", "-", "1", "2", "-", "3", "1">>)

C8_Witness ==
    /\ norm_out.kind = "record"
    /\ tz_offset = 3600
    /\ raw_in.IssuedDate = DateText(<<"8", "6", "3", "9", "9", "9", "9", "9">>)
    /\ norm_out.rec.issued_date = Str(<<"1", "9", "7", "0", "-", "0", "1", "-", "0", "2">>)

-----------------------------------------------------------------------------
(* C9 *)

\* the rows of the file are a prefix of the header and the rows of the data
RowsArePrefix(rows, data) ==
    /\ Len(rows) <= Len(data) + 1
    /\ \A i \in 1..Len(rows) :
           rows[i] = IF i = 1
                     THEN [k \in 1..Len(Keys(data[1])) |-> <<Keys(data[1])[k]>>]
                     ELSE [k \in 1..Len(Keys(data[1])) |->
                               Cell(data[i - 1][Keys(data[1])[k]])]

\* C9: a call of save_to_csv leaves the record sequence as it was, also when
\* writing fails; with an empty sequence it leaves the file system as it
\* was; with records and no failure the file holds a header row of the field
\* names of the first record and then one row per record, in sequence
\* order; a failed write leaves the old file or a prefix of those rows.
C9_HeaderThenOneRowPerRecord ==
    [][csv_call'.state = "returned" =>
          /\ csv_data' = csv_data
          /\ csv_data = <<>> => csv_file' = csv_file
          /\ (csv_data # <<>> /\ csv_call'.failed_at = 0) =>
                 /\ csv_file'.exists
                 /\ Len(csv_file'.rows) = Len(csv_data) + 1
                 /\ RowsArePrefix(csv_file'.rows, csv_data)
          /\ (csv_data # <<>> /\ csv_call'.failed_at # 0) =>
                 \/ csv_file' = csv_file
                 \/ /\ csv_file'.exists
                    /\ Len(csv_file'.rows) <= Len(csv_data)
                    /\ RowsArePrefix(csv_file'.rows, csv_data)]_vars

C9_Witness ==
    /\ csv_call.state = "returned"
    /\ csv_call.failed_at = 0
    /\ Len(csv_data) = 2
    /\ csv_data[1] # csv_data[2]
    /\ csv_file.exists
    /\ Len(csv_file.rows) = 3
    /\ csv_file.rows[1] = [k \in 1..6 |-> <<FieldNames[k]>>]

-----------------------------------------------------------------------------
(* C10 *)

\* this step accumulates a page that was normalized without an exception
AccumulatingPage ==
    /\ pc = "Awaiting"
    /\ pages' # pages
    /\ pc' # "Raised"

\* the stopping condition on the values the step leaves behind
StopConditionAfter ==
    \/ Len(all_permits') >= total_records'
    \/ Len(pages'[Len(pages')]) < page_size

\* C10: after a page has been normalized and accumulated the run stops if
\* and only if the accumulated count is at least the total reported with
\* page 1 or the page held fewer raw records than the page size; when it
\* does not stop, the next request is for the next page index and no other.
C10_StopsIffTotalReachedOrShortPage ==
    [][/\ AccumulatingPage =>
              /\ StopConditionAfter <=> pc' = "Done"
              /\ StopConditionAfter =>
                     /\ returned'.done
                     /\ returned'.value = all_permits'
                     /\ current_page' = current_page
                     /\ requests' = requests
              /\ ~StopConditionAfter =>
                     /\ pc' = "Requesting"
                     /\ ~returned'.done
                     /\ current_page' = current_page + 1
                     /\ requests' = requests
       /\ pc = "Requesting" =>
              /\ Len(requests') = Len(requests) + 1
              /\ requests'[Len(requests')].page = current_page
              /\ current_page' = current_page]_vars

C10_Witness ==
    /\ pc = "Done"
    /\ page_size = 2
    /\ Len(pages) = 1
    /\ Len(pages[1]) = 1
    /\ Len(all_permits) = 1
    /\ total_records = 3
    /\ returned = [done |-> TRUE, value |-> all_permits]
    /\ RequestedPages = <<1>>

-----------------------------------------------------------------------------
(* C11 *)

\* ceil(total / size)
CeilDiv(total, size) == (total + size - 1) \div size

\* the number of raw rows page i holds when the server delivers exactly
\* total rows in full pages
HonestLen(i, total, size) ==
    IF total - (i - 1) * size >= size THEN size
    ELSE IF total - (i - 1) * size > 0 THEN total - (i - 1) * size
    ELSE 0

\* every page processed so far is a page of such a server
ServerDeliversTotal ==
    /\ total_records > 0
    /\ \A i \in 1..Len(pages) :
           Len(pages[i]) = HonestLen(i, total_records, page_size)

\* C11: a page that is full and leaves the number of accepted records below
\* the total is followed by a request for the next page, whatever the number
\* of raw rows received; and against a server that delivers exactly Total
\* raw rows in full pages and then a short or empty page, a run makes at
\* most ceil(Total / pageSize) + 1 requests.
C11_RejectsCostAtMostOnePage ==
    [][/\ (/\ AccumulatingPage
           /\ Len(pages'[Len(pages')]) = page_size
           /\ Len(all_permits') < total_records') =>
              /\ pc' = "Requesting"
              /\ current_page' = current_page + 1
       /\ ServerDeliversTotal' =>
              Len(requests') <= CeilDiv(total_records', page_size) + 1]_vars

\* two full pages of one row hold the total of 2, a rejected row keeps the
\* count below it, and the third request is answered by an empty page
C11_Witness ==
    /\ pc = "Done"
    /\ ServerDeliversTotal
    /\ page_size = 1
    /\ total_records = 2
    /\ Len(pages) = 2
    /\ Len(all_permits) = 1
    /\ Len(requests) = 3
    /\ last_response.outcome = "ok"
    /\ last_response.Data = <<>>

-----------------------------------------------------------------------------
(* C12 *)

\* C12: the requests of a run are for the pages 1, 2, ..., n in that order,
\* none twice; and a request after the first is issued only when the
\* response to the one before it was received, was no failure, and its page
\* was normalized and accumulated without ending the run.
C12_PagesRequestedInSequence ==
    [][/\ \A i \in 1..Len(requests') : requests'[i].page = i
       /\ requests' # requests =>
              /\ Len(requests') = Len(requests) + 1
              /\ SubSeq(requests', 1, Len(requests)) = requests
              /\ pc = "Requesting"
              /\ ~returned.done
              /\ Len(requests) > 0 =>
                     /\ last_response.outcome = "ok"
                     /\ Len(pages) = Len(requests)
                     /\ pages[Len(pages)] = last_response.Data]_vars

C12_Witness ==
    /\ pc = "Awaiting"
    /\ RequestedPages = <<1, 2, 3>>
    /\ Len(pages) = 2
    /\ log = <<<<"request", 1>>, <<"sleep", delay_seconds, 2>>,
               <<"request", 2>>, <<"sleep", delay_seconds, 3>>,
               <<"request", 3>>>>

-----------------------------------------------------------------------------
(* C13 *)

\* the response being received is a body whose raw record list is empty
ReceivingEmptyPage ==
    /\ pc = "Awaiting"
    /\ last_response'.outcome = "ok"
    /\ last_response'.Data = <<>>

\* C13: a page whose raw record list is empty ends the run: nothing is
\* appended, nothing more is requested, and the value returned is what the
\* earlier pages accumulated, which on page 1 is the empty sequence after
\* exactly one request.
C13_EmptyPageStops ==
    [][/\ ReceivingEmptyPage =>
              /\ pc' = "Done"
              /\ all_permits' = all_permits
              /\ requests' = requests
              /\ current_page' = current_page
              /\ returned' = [done |-> TRUE,
                              value |-> AcceptedOfPages(pages)]
              /\ current_page = 1 =>
                     /\ returned'.value = <<>>
                     /\ Len(requests') = 1
       /\ pc = "Done" => (pc' = "Done" /\ requests' = requests)]_vars

\* an empty first page with a reported total above 0
C13_WitnessFirstPage ==
    /\ pc = "Done"
    /\ Len(requests) = 1
    /\ last_response.outcome = "ok"
    /\ last_response.hasData
    /\ last_response.Data = <<>>
    /\ total_records > 0
    /\ returned = [done |-> TRUE, value |-> <<>>]

\* an empty third page after two pages that left records
C13_Witness ==
    /\ pc = "Done"
    /\ Len(requests) = 3
    /\ last_response.outcome = "ok"
    /\ last_response.Data = <<>>
    /\ Len(pages) = 2
    /\ Len(all_permits) = 2
    /\ returned = [done |-> TRUE, value |-> all_permits]

-----------------------------------------------------------------------------
(* C14 *)

\* C14: the total is 0 until the response to page 1 is read, becomes the
\* "Total" of that response (0 when it has none), and no later step changes
\* it, whatever "Total" the later responses carry.
C14_TotalCapturedOnPageOne ==
    [][/\ ReceivingPage(1) =>
              total_records' = IF last_response'.Total.t = "absent" THEN 0
                               ELSE last_response'.Total.n
       /\ ~ReceivingPage(1) => total_records' = total_records
       /\ (current_page = 1 /\ pc \in {"Requesting", "Awaiting"}) =>
              total_records = 0]_vars

\* the response to page 2 carried another "Total" than the response to page 1
C14_Witness ==
    /\ Len(pages) = 2
    /\ Len(requests) = 2
    /\ total_records = 3
    /\ last_response.outcome = "ok"
    /\ last_response.Total = Num(1)
    /\ pc = "Requesting"

-----------------------------------------------------------------------------
(* C15 *)

\* C15: the value a run returns is the normalized forms of the accepted raw
\* records of the pages it processed, in page order and then in the order
\* within the page; the accumulator only grows at its end, and a value once
\* returned does not change.
C15_ReturnsAcceptedInOrder ==
    [][/\ returned'.done => returned'.value = AcceptedOfPages(pages')
       /\ Len(all_permits') >= Len(all_permits)
       /\ SubSeq(all_permits', 1, Len(all_permits)) = all_permits
       /\ returned.done => returned' = returned]_vars

\* two pages, a rejected record on the first, two different records returned
C15_Witness ==
    /\ pc = "Done"
    /\ page_size = 2
    /\ pages = <<<<GoodRecord, NumberlessRecord>>, <<UndatedRecord>>>>
    /\ Len(returned.value) = 2
    /\ returned.value[1] # returned.value[2]
    /\ returned.value[1].issued_date # None
    /\ returned.value[2].issued_date = None

-----------------------------------------------------------------------------
(* C16 *)

\* C16: the requests and the sleeps of a run alternate, beginning with the
\* request for page 1: the i-th request is followed, if anything follows it,
\* by one sleep of the configured duration, taken when the page index is
\* already i + 1, and then by the request for page i + 1.  No sleep comes
\* before the first request, and none after the request on which the run
\* stopped or failed.
C16_OneDelayBetweenRequests ==
    /\ \A i \in 1..Len(log) :
           log[i] = IF i % 2 = 1
                    THEN <<"request", (i + 1) \div 2>>
                    ELSE <<"sleep", delay_seconds, (i \div 2) + 1>>
    /\ pc = "Requesting" => (Len(log) % 2 = 0 /\ Len(log) = 2 * Len(requests))
    /\ pc # "Requesting" => (Len(log) % 2 = 1 /\ Len(log) = 2 * Len(requests) - 1)

\* a run that failed on its third request, after two sleeps of one second
C16_Witness ==
    /\ pc = "Failed"
    /\ delay_seconds = 1
    /\ Len(requests) = 3
    /\ log = <<<<"request", 1>>, <<"sleep", 1, 2>>, <<"request", 2>>,
               <<"sleep", 1, 3>>, <<"request", 3>>>>

-----------------------------------------------------------------------------
(* C17 *)

\* the filter fields a request leaves empty
UnfilteredFields ==
    {"sort", "group", "filter", "PermitType", "PermitNumber", "AddrNumber",
     "AddrDirection", "AddrStreet", "AddrType", "ProfName",
     "ProfStateLicense", "ProjectNumber", "ProjectName"}

\* the fields that select the permits and the page
SelectingFields ==
    {"page", "pageSize", "TempPermit", "SolarGreenAdaptive",
     "SolarGreenAdaptiveStartDate", "SolarGreenAdaptiveEndDate"}

\* C17: every request of a run carries the start date, the end date and the
\* page size of the run, TempPermit = "Y", SolarGreenAdaptive = "solar" and
\* the empty string in every other filter field; two requests of a run
\* differ in the page index, which counts from 1, and in nothing else.
C17_RequestsDifferInPageOnly ==
    /\ \A i \in 1..Len(requests) :
           /\ DOMAIN requests[i] = UnfilteredFields \cup SelectingFields
           /\ \A f \in UnfilteredFields : requests[i][f] = ""
           /\ requests[i].TempPermit = "Y"
           /\ requests[i].SolarGreenAdaptive = "solar"
           /\ requests[i].SolarGreenAdaptiveStartDate = start_date_str
           /\ requests[i].SolarGreenAdaptiveEndDate = end_date_str
           /\ requests[i].pageSize = page_size
           /\ requests[i].page = i
    /\ \A i, j \in 1..Len(requests) :
           \A f \in (UnfilteredFields \cup SelectingFields) \ {"page"} :
               requests[i][f] = requests[j][f]

C17_Witness ==
    /\ Len(requests) = 3
    /\ page_size = 2
    /\ requests[1].SolarGreenAdaptiveStartDate = "03/27/2025"
    /\ requests[3].SolarGreenAdaptiveEndDate = "04/26/2025"
    /\ requests[3].page = 3
    /\ requests[3] = [requests[1] EXCEPT !.page = 3]

-----------------------------------------------------------------------------
(* C18 *)

\* C18: the loop is left by a stop or by a failed request and in no other
\* way: a run is requesting, awaiting a response, stopped or failed; it has
\* returned exactly when it stopped or failed; and once it has, it stays as
\* it is and issues no request.
C18_EndsStoppedOrFailed ==
    [][/\ pc' \in {"Requesting", "Awaiting", "Done", "Failed"}
       /\ returned'.done <=> pc' \in {"Done", "Failed"}
       /\ pc \in {"Done", "Failed"} =>
              (pc' = pc /\ requests' = requests)]_vars

-----------------------------------------------------------------------------
(* C19 *)

\* the number of records accumulated when page i had been processed
CountAfterPage(i) == Len(AcceptedOfPages(SubSeq(pages, 1, i)))

\* page i was followed by a request, or is about to be
FollowedByRequest(i) ==
    \/ i < Len(requests)
    \/ i = Len(pages) /\ pc = "Requesting"

\* C19: every processed page that is not the last one requested held at
\* least pageSize raw records and left the accumulated count below the total
\* reported with page 1: no request follows a short page or a count that
\* has reached the total.
C19_RequestOnlyAfterFullPageBelowTotal ==
    \A i \in 1..Len(pages) :
        FollowedByRequest(i) =>
            /\ Len(pages[i]) >= page_size
            /\ CountAfterPage(i) < total_records

\* three requests, each of the first two after a full page below the total
C19_Witness ==
    /\ Len(requests) = 3
    /\ Len(pages) = 3
    /\ page_size = 2
    /\ total_records = 3
    /\ CountAfterPage(2) = 2
    /\ Len(pages[3]) = 1
    /\ pc = "Done"

=============================================================================
